---- MODULE Spec2Model ----
(***************************************************************************)
(* Habit scheduling and completion analytics of habitify (server side).    *)
(*                                                                         *)
(* Time.  An instant is an integer number of ticks since a UTC midnight   *)
(* that starts a Sunday; a calendar day has TicksPerDay ticks.  The        *)
(* server's timezone is an offset tz in ticks, fixed for a run: every      *)
(* Date#setHours / getDay / setDate of the source works on the local       *)
(* calendar, every toISOString and every 'YYYY-MM-DDT00:00:00.000Z' on the *)
(* UTC calendar.  An optional value (null or a value) is the empty set or  *)
(* a singleton.                                                            *)
(***************************************************************************)
EXTENDS Integers, Sequences, FiniteSets, Bags, TLC

VARIABLES
    now,          \* the wall clock, an instant
    tz,           \* the server's timezone offset, in ticks
    habits,       \* Habit collection: a set of habit documents
    completions,  \* Completion collection: a set of completion documents
    nextHid,      \* next fresh Habit _id
    nextCid,      \* next fresh Completion _id
    inflight,     \* bag of the logCompletion requests suspended at their second await
    resp,         \* the response of logCompletion, when it was the last to answer
    fnIn,         \* input of the pure function under evaluation
    fnOut,        \* its result
    client        \* the client's HabitContext completions: habit id -> entry

vars == <<now, tz, habits, completions, nextHid, nextCid, inflight, resp, fnIn, fnOut,
         client>>

storeVars == <<habits, completions, nextHid, nextCid, inflight, resp>>

-----------------------------------------------------------------------------
(* Bounds *)

TicksPerDay == 2

MaxDueDay == 7

MaxHistDay == 4

MaxPerDay == 2

MaxNow == 1

MaxHabits == 1

MaxCompletionIds == 2

MaxInFlight == 2

MaxChartMonths == 12

-----------------------------------------------------------------------------
(* Calendar *)

TZOffsets == {-1, 0, 1}

Max(a, b) == IF a >= b THEN a ELSE b

\* calendar day, in the server's timezone, of instant t
LocalDay(t) == (t + tz) \div TicksPerDay

\* calendar day of instant t in UTC (Date#toISOString().split('T')[0])
UtcDay(t) == t \div TicksPerDay

\* d.setHours(0, 0, 0, 0)
StartOfDay(t) == LocalDay(t) * TicksPerDay - tz

\* d.setHours(23, 59, 59, 999): the last instant of t's local day
EndOfDay(t) == StartOfDay(t) + TicksPerDay - 1

\* d.setDate(d.getDate() - 1) applied to a local midnight
PrevDay(t) == StartOfDay(StartOfDay(t) - 1)

\* tomorrow.setDate(tomorrow.getDate() + 1) applied to a local midnight
NextDay(t) == StartOfDay(EndOfDay(t) + 1)

\* new Date(dateStr + 'T00:00:00.000Z') for the calendar day D
UtcMidnight(D) == D * TicksPerDay

\* Date#getDay(): 0 = Sunday .. 6 = Saturday, on the local calendar
GetDay(t) == LocalDay(t) % 7

\* the habit convention: 0 = Monday .. 6 = Sunday
DayOfWeekMonFirst(t) == IF GetDay(t) = 0 THEN 6 ELSE GetDay(t) - 1

\* Array.prototype.includes
Includes(seq, x) == \E i \in 1..Len(seq) : seq[i] = x

-----------------------------------------------------------------------------
(* habitLogic: the due-date evaluator *)

\* the end date compared as stored, without moving it to the end of its day
isHabitActiveOnDate_EndAsStored(habit, date) ==
    IF habit.isActive = FALSE THEN FALSE
    ELSE IF /\ habit.startDate # {}
            /\ \E s \in habit.startDate : StartOfDay(date) < StartOfDay(s)
         THEN FALSE
    ELSE IF /\ habit.endDate # {}
            /\ \E e \in habit.endDate : EndOfDay(date) > e
         THEN FALSE
    ELSE TRUE

\* the window check without the early return for an archived habit
isHabitActiveOnDate_IgnoreArchive(habit, date) ==
    IF /\ habit.startDate # {}
       /\ \E s \in habit.startDate : StartOfDay(date) < StartOfDay(s)
    THEN FALSE
    ELSE IF /\ habit.endDate # {}
            /\ \E e \in habit.endDate : EndOfDay(date) > EndOfDay(e)
         THEN FALSE
    ELSE TRUE

isHabitActiveOnDate(habit, date) ==
    IF habit.isActive = FALSE THEN FALSE
    ELSE IF /\ habit.startDate # {}
            /\ \E s \in habit.startDate : StartOfDay(date) < StartOfDay(s)
         THEN FALSE
    ELSE IF /\ habit.endDate # {}
            /\ \E e \in habit.endDate : EndOfDay(date) > EndOfDay(e)
         THEN FALSE
    ELSE TRUE

\* the native Sunday = 0 day matched against frequency.days
isHabitDueOnDate_NativeDay(habit, date) ==
    IF ~isHabitActiveOnDate(habit, date) THEN FALSE
    ELSE IF habit.frequency.type = "daily" THEN TRUE
    ELSE IF habit.frequency.type \in {"specific", "specific_days"}
         THEN IF ~habit.frequency.daysIsArray THEN FALSE
              ELSE Includes(habit.frequency.days, GetDay(date))
    ELSE FALSE

\* an evaluator that takes a habit of unrecognised frequency as due
isHabitDueOnDate_FailOpen(habit, date) ==
    IF ~isHabitActiveOnDate(habit, date) THEN FALSE
    ELSE IF habit.frequency.type = "daily" THEN TRUE
    ELSE IF habit.frequency.type \in {"specific", "specific_days"}
         THEN IF ~habit.frequency.daysIsArray THEN FALSE
              ELSE Includes(habit.frequency.days, DayOfWeekMonFirst(date))
    ELSE TRUE

isHabitDueOnDate(habit, date) ==
    IF ~isHabitActiveOnDate(habit, date) THEN FALSE
    ELSE IF habit.frequency.type = "daily" THEN TRUE
    ELSE IF habit.frequency.type \in {"specific", "specific_days"}
         THEN IF ~habit.frequency.daysIsArray THEN FALSE
              ELSE Includes(habit.frequency.days, DayOfWeekMonFirst(date))
    ELSE FALSE

-----------------------------------------------------------------------------
(* Idle values of the variables a specification does not use *)

NoResp == [op |-> "none"]

StoreIdle ==
    /\ habits = {}
    /\ completions = {}
    /\ nextHid = 1
    /\ nextCid = 1
    /\ inflight = EmptyBag
    /\ resp = NoResp

Users == {"u1", "u2"}

FnIdle ==
    /\ fnIn = [fn |-> "none"]
    /\ fnOut = [fn |-> "none"]

\* useState({}) of HabitContext: no entry
NoEntries == <<>>

ClientIdle == client = NoEntries

-----------------------------------------------------------------------------
(* Habit model: schema validation and the pre('save') hooks *)

Range(seq) == {seq[i] : i \in 1..Len(seq)}

RECURSIVE Ascending(_)
\* the elements of a finite set of integers in ascending order
Ascending(S) ==
    IF S = {} THEN <<>>
    ELSE LET m == CHOOSE x \in S : \A y \in S : x <= y
         IN  <<m>> \o Ascending(S \ {m})

\* the validators declared in HabitSchema (enum, min, max)
HabitSchemaValid(doc) ==
    /\ doc.frequency.type \in {"daily", "specific", "specific_days"}
    /\ \A d \in Range(doc.frequency.days) : d >= 0 /\ d <= 6
    /\ doc.goal.type \in {"yes_no", "target"}
    /\ doc.goal.target >= 1

\* first pre('save') hook: false when it calls next(new Error(...))
FrequencyHookPasses(doc) ==
    doc.frequency.type \in {"specific", "specific_days"} =>
        /\ Len(doc.frequency.days) > 0
        /\ \A d \in Range(doc.frequency.days) : d >= 0 /\ d <= 6

\* hooks that store the days of a specific frequency as they were given
HabitPreSave_KeepDuplicates(doc) ==
    LET type == IF doc.frequency.type = "specific_days" THEN "specific"
                ELSE doc.frequency.type
        kept == IF type = "daily" THEN <<>> ELSE doc.frequency.days
    IN  [doc EXCEPT !.frequency =
            [type |-> type, daysIsArray |-> TRUE, days |-> kept]]

\* the document as the two pre('save') hooks leave it
HabitPreSave(doc) ==
    LET type == IF doc.frequency.type = "specific_days" THEN "specific"
                ELSE doc.frequency.type
        kept == IF type = "daily" THEN <<>> ELSE doc.frequency.days
    IN  [doc EXCEPT !.frequency =
            [type |-> type, daysIsArray |-> TRUE, days |-> Ascending(Range(kept))]]

\* Document#save of a habit: validation, then the hooks
HabitSaveOk(doc) == HabitSchemaValid(doc) /\ FrequencyHookPasses(doc)

-----------------------------------------------------------------------------
(* Spec: the Habit and Completion stores under the request handlers *)

\* request bodies of POST /api/habits: a daily target habit, and a
\* specific-days habit without days
HabitBodies ==
    {[frequency |-> [type |-> "daily", daysIsArray |-> TRUE, days |-> <<>>],
      goal |-> [type |-> "target", target |-> 3],
      startDate |-> {}, endDate |-> {}],
     [frequency |-> [type |-> "specific", daysIsArray |-> TRUE, days |-> <<>>],
      goal |-> [type |-> "yes_no", target |-> 1],
      startDate |-> {}, endDate |-> {}]}

\* req.body.value of POST /api/habits/:id/complete
CheckInValues == {0, 2}

HabitIds == 1..MaxHabits

CompletionIds == 1..MaxCompletionIds

Init ==
    /\ tz \in TZOffsets
    /\ ClientIdle
    /\ now = 0
    /\ habits = {}
    /\ completions = {}
    /\ nextHid = 1
    /\ nextCid = 1
    /\ inflight = EmptyBag
    /\ resp = NoResp
    /\ FnIdle

\* the 400 responses of createHabit's own frequency check
createHabitRejects(body) ==
    /\ body.frequency.type = "specific"
    /\ \/ ~body.frequency.daysIsArray
       \/ Len(body.frequency.days) = 0
       \/ \E d \in Range(body.frequency.days) : d < 0 \/ d > 6

\* new Habit({...}) of createHabit
NewHabit(id, user, body) ==
    [id |-> id, user |-> user,
     frequency |-> [body.frequency EXCEPT !.daysIsArray = TRUE],
     goal |-> body.goal,
     isActive |-> TRUE, deletedAt |-> {},
     startDate |-> body.startDate, endDate |-> body.endDate]

CreateHabit(user, body) ==
    /\ nextHid <= MaxHabits
    /\ IF createHabitRejects(body)
       THEN UNCHANGED <<habits, nextHid>>
       ELSE LET doc == NewHabit(nextHid, user, body)
            IN  IF HabitSaveOk(doc)
                THEN /\ habits' = habits \cup {HabitPreSave(doc)}
                     /\ nextHid' = nextHid + 1
                ELSE UNCHANGED <<habits, nextHid>>
    /\ resp' = NoResp
    /\ UNCHANGED <<now, tz, completions, nextCid, inflight, fnIn, fnOut, client>>

\* Habit.findOne({ _id, user })
FindOwnedHabit(hid, user) == {h \in habits : h.id = hid /\ h.user = user}

\* Completion.findOne({ habit, date: { $gte: today } }): the candidates
FindTodaysCompletion(hid, today) ==
    {c \in completions : c.habit = hid /\ c.date >= today}

\* req.body.value || 1
ValueOrOne(v) == IF v = 0 THEN 1 ELSE v

\* the validators declared on CompletionSchema.value
CompletionValueValid(v) == v >= 0

\* no uniqueness check at all
UniqueIndexAdmits_NoIndex(coll, doc) == TRUE

\* the unique index { habit: 1, date: 1 }
UniqueIndexAdmits(coll, doc) ==
    ~\E c \in coll : c.habit = doc.habit /\ c.date = doc.date

\* logCompletion up to its second await: the ownership check and the
\* lookup of today's completion.  req.body.value is not read before the
\* second await, where LogCompletionSave draws it.
LogCompletionFind(user, hid) ==
    /\ IF FindOwnedHabit(hid, user) = {}
       THEN /\ resp' = [op |-> "logCompletion", status |-> 404]
            /\ UNCHANGED inflight
       ELSE LET found == FindTodaysCompletion(hid, StartOfDay(now))
            IN  /\ BagCardinality(inflight) < MaxInFlight
                /\ \E existing \in (IF found = {} THEN {{}} ELSE {{c.id} : c \in found}) :
                      inflight' = inflight (+) SetToBag(
                          {[habit |-> hid, existing |-> existing]})
                /\ resp' = NoResp
    /\ UNCHANGED <<now, tz, habits, completions, nextHid, nextCid, fnIn, fnOut, client>>

\* the value an existing completion gets from a repeated check-in
UpdatedValue(old, requested) == ValueOrOne(requested)

\* res.status(status).json(completion), noted with the value the request
\* asked for (req.body.value || 1)
CompletionResp(status, requested) ==
    [op |-> "logCompletion", status |-> status, requested |-> requested]

\* logCompletion from its second await on, for the request body's value:
\* update the completion found, or insert a new one dated today
LogCompletionSave(req, value) ==
    /\ BagIn(req, inflight)
    /\ inflight' = inflight (-) SetToBag({req})
    /\ LET docs == {c \in completions : c.id \in req.existing}
           fresh == [id |-> nextCid, habit |-> req.habit,
                     date |-> StartOfDay(now), value |-> ValueOrOne(value)]
       IN  IF req.existing # {}
           THEN IF docs = {} \/ ~CompletionValueValid(ValueOrOne(value))
                THEN /\ resp' = [op |-> "logCompletion", status |-> 500]
                     /\ UNCHANGED <<completions, nextCid>>
                ELSE /\ completions' =
                            {IF c \in docs
                             THEN [c EXCEPT !.value = UpdatedValue(c.value, value),
                                            !.date = StartOfDay(c.date)]
                             ELSE c : c \in completions}
                     /\ resp' = CompletionResp(200, ValueOrOne(value))
                     /\ UNCHANGED nextCid
           ELSE IF /\ CompletionValueValid(fresh.value)
                   /\ UniqueIndexAdmits(completions, fresh)
                THEN /\ nextCid <= MaxCompletionIds
                     /\ completions' = completions \cup {fresh}
                     /\ nextCid' = nextCid + 1
                     /\ resp' = CompletionResp(201, ValueOrOne(value))
                ELSE /\ resp' = [op |-> "logCompletion", status |-> 500]
                     /\ UNCHANGED <<completions, nextCid>>
    /\ UNCHANGED <<now, tz, habits, nextHid, fnIn, fnOut, client>>

\* completionController.js deleteCompletion
DeleteCompletion(user, cid) ==
    /\ IF \E c \in completions : c.id = cid
       THEN completions' = {c \in completions : c.id # cid}
       ELSE UNCHANGED completions
    /\ resp' = NoResp
    /\ UNCHANGED <<now, tz, habits, nextHid, nextCid, inflight, fnIn, fnOut, client>>

\* the wall clock advances
Tick ==
    /\ now < MaxNow
    /\ now' = now + 1
    /\ resp' = NoResp
    /\ UNCHANGED <<tz, habits, completions, nextHid, nextCid, inflight, fnIn, fnOut, client>>

Next ==
    \/ \E u \in Users, b \in HabitBodies : CreateHabit(u, b)
    \/ \E u \in Users, h \in HabitIds : LogCompletionFind(u, h)
    \/ \E req \in BagToSet(inflight), v \in CheckInValues : LogCompletionSave(req, v)
    \/ \E u \in Users, c \in CompletionIds : DeleteCompletion(u, c)
    \/ Tick

Spec == Init /\ [][Next]_vars

-----------------------------------------------------------------------------
(* The read handlers: day view, month view, due-today listing *)

\* Math.round((completed / total) * 100)
RoundedRate(completed, total) ==
    IF total > 0 THEN (200 * completed + total) \div (2 * total) ELSE 0

\* thresholds that belong to the bucket below them
getHeatmapColor_InclusiveBounds(rate) ==
    IF rate = 0 THEN "#ebedf0"
    ELSE IF rate <= 25 THEN "#c6e48b"
    ELSE IF rate <= 50 THEN "#7bc96f"
    ELSE IF rate <= 75 THEN "#239a3b"
    ELSE "#196127"

getHeatmapColor(rate) ==
    IF rate = 0 THEN "#ebedf0"
    ELSE IF rate < 25 THEN "#c6e48b"
    ELSE IF rate < 50 THEN "#7bc96f"
    ELSE IF rate < 75 THEN "#239a3b"
    ELSE "#196127"

\* Array.prototype.find over a query result: the first document in natural
\* (insertion) order, as an optional value
FirstOf(docs) ==
    IF docs = {} THEN {}
    ELSE {CHOOSE c \in docs : \A d \in docs : c.id <= d.id}

\* Habit.find({ user, isActive: true }) filtered by the due-date evaluator
DueHabitsOn(user, date) ==
    {h \in habits : /\ h.user = user
                    /\ h.isActive = TRUE
                    /\ isHabitActiveOnDate(h, date)
                    /\ isHabitDueOnDate(h, date)}

\* the date range alone, whatever habit the completion belongs to
CompletionsBetween_AnyHabit(ids, from, to) ==
    {c \in completions : c.date >= from /\ c.date <= to}

\* Completion.find({ habit: { $in: ids }, date: { $gte: from, $lte: to } })
CompletionsBetween(ids, from, to) ==
    {c \in completions : c.habit \in ids /\ c.date >= from /\ c.date <= to}

\* one element of habitsWithStatus in getHabitsForDate
DayStatus(habit, found) ==
    LET completion == FirstOf({c \in found : c.habit = habit.id})
    IN  [id |-> habit.id,
         completed |-> completion # {},
         completionValue |-> IF completion = {} THEN 0
                             ELSE (CHOOSE c \in completion : TRUE).value,
         completionId |-> {c.id : c \in completion}]

\* GET /api/habits/calendar/date/:date for the calendar day D
getHabitsForDate(user, D) ==
    LET targetDate == UtcMidnight(D)
        activeHabits == DueHabitsOn(user, targetDate)
        found == CompletionsBetween({h.id : h \in activeHabits},
                                    StartOfDay(targetDate), EndOfDay(targetDate))
        habitsWithStatus == {DayStatus(h, found) : h \in activeHabits}
        done == Cardinality({st \in habitsWithStatus : st.completed})
    IN  [op |-> "getHabitsForDate", user |-> user, date |-> D,
         isPast |-> StartOfDay(targetDate) < StartOfDay(now),
         isToday |-> StartOfDay(targetDate) = StartOfDay(now),
         isFuture |-> StartOfDay(targetDate) > StartOfDay(now),
         habitsCount |-> Cardinality(habitsWithStatus),
         completedCount |-> done,
         completionRate |-> RoundedRate(done, Cardinality(habitsWithStatus)),
         habits |-> habitsWithStatus]

\* the helper behind getMonthHeatmap, for the instant date
getCompletionRateForDate(date, user) ==
    LET dueHabits == DueHabitsOn(user, date)
        found == CompletionsBetween({h.id : h \in dueHabits},
                                    StartOfDay(date), EndOfDay(date))
    IN  [total |-> Cardinality(dueHabits),
         completed |-> Cardinality(found),
         rate |-> RoundedRate(Cardinality(found), Cardinality(dueHabits))]

\* one element of getMonthHeatmap's data, for the calendar day D of the
\* loop: new Date(year, month - 1, day) is the local midnight of D, and the
\* entry is labelled with the UTC date of that instant
MonthHeatmapDay(user, D) ==
    LET date == D * TicksPerDay - tz
        dayData == getCompletionRateForDate(date, user)
    IN  [op |-> "getMonthHeatmap", user |-> user, day |-> D,
         date |-> UtcDay(date),
         completionRate |-> dayData.rate,
         completedCount |-> dayData.completed,
         totalCount |-> dayData.total,
         color |-> getHeatmapColor(dayData.rate)]

\* Habit.getTodaysHabits(userId): the query on the native day of the week
getTodaysHabits(user) ==
    LET today == GetDay(now)
    IN  {h \in habits :
            /\ h.user = user
            /\ h.isActive = TRUE
            /\ \/ h.frequency.type = "daily"
               \/ h.frequency.type = "specific" /\ Includes(h.frequency.days, today)
               \/ h.frequency.type = "specific_days" /\ Includes(h.frequency.days, today)}

\* GET /api/habits/due-today
getTodaysDueHabits(user) ==
    LET dueHabits == getTodaysHabits(user)
        today == StartOfDay(now)
        found == {c \in completions : /\ c.habit \in {h.id : h \in dueHabits}
                                      /\ c.date >= today
                                      /\ c.date < NextDay(today)}
    IN  [op |-> "getTodaysDueHabits", user |-> user,
         habits |-> {LET completion == FirstOf({c \in found : c.habit = h.id})
                     IN  [id |-> h.id,
                          completedToday |-> completion # {},
                          completionId |-> {c.id : c \in completion},
                          todayValue |-> IF completion = {} THEN 0
                                         ELSE (CHOOSE c \in completion : TRUE).value]
                     : h \in dueHabits}]

-----------------------------------------------------------------------------
(* SpecView: the read handlers over every store of a bounded family.  A     *)
(* store holds the first user's habit 1 and possibly a daily habit 2 of     *)
(* either user; habit 1 may have a completion yesterday and today, habit 2  *)
(* today.  Completions are dated at local midnights, one per habit and day. *)

\* the evaluation week: a Sunday, a Monday and a Tuesday
ViewDays == {7, 8, 9}

\* frequencies as the pre('save') hooks store them
ViewFrequencies ==
    {[type |-> "daily", daysIsArray |-> TRUE, days |-> <<>>],
     [type |-> "specific", daysIsArray |-> TRUE, days |-> <<0, 2, 4>>],
     [type |-> "specific", daysIsArray |-> TRUE, days |-> <<6>>]}

ViewGoals == {[type |-> "yes_no", target |-> 1], [type |-> "target", target |-> 3]}

\* no window, a window that opens on the Monday, a window that closes on it
ViewWindows ==
    {[startDate |-> {}, endDate |-> {}],
     [startDate |-> {UtcMidnight(8) + 1}, endDate |-> {}],
     [startDate |-> {}, endDate |-> {UtcMidnight(8)}]}

\* stored completion values: absent (0), below the target, at the target
ViewValues == {0, 1, 3}

ViewHabit1(f, g, a, w) ==
    [id |-> 1, user |-> "u1", frequency |-> f, goal |-> g, isActive |-> a,
     deletedAt |-> {}, startDate |-> w.startDate, endDate |-> w.endDate]

ViewHabit2(u) ==
    [id |-> 2, user |-> u,
     frequency |-> [type |-> "daily", daysIsArray |-> TRUE, days |-> <<>>],
     goal |-> [type |-> "yes_no", target |-> 1], isActive |-> TRUE,
     deletedAt |-> {}, startDate |-> {}, endDate |-> {}]

ViewCompletion(id, hid, date, value) ==
    IF value = 0 THEN {}
    ELSE {[id |-> id, habit |-> hid, date |-> date, value |-> value]}

InitView ==
    /\ tz \in TZOffsets
    /\ ClientIdle
    /\ now \in {t \in UtcMidnight(7)..UtcMidnight(10) : LocalDay(t) \in ViewDays}
    /\ \E f \in ViewFrequencies, g \in ViewGoals, a \in BOOLEAN, w \in ViewWindows,
          others \in {{}} \cup {{ViewHabit2(u)} : u \in Users} :
          habits = {ViewHabit1(f, g, a, w)} \cup others
    /\ \E v1, v2, v3 \in ViewValues :
          completions =
              ViewCompletion(1, 1, PrevDay(now), v1)
              \cup ViewCompletion(2, 1, StartOfDay(now), v2)
              \cup (IF \E h \in habits : h.id = 2
                    THEN ViewCompletion(3, 2, StartOfDay(now), Max(v3 - 2, 0))
                    ELSE {})
    /\ nextHid = 3
    /\ nextCid = 4
    /\ inflight = EmptyBag
    /\ resp = NoResp
    /\ FnIdle

GetHabitsForDate(user, D) ==
    /\ resp' = getHabitsForDate(user, D)
    /\ UNCHANGED <<now, tz, habits, completions, nextHid, nextCid, inflight, fnIn, fnOut, client>>

GetMonthHeatmapDay(user, D) ==
    /\ resp' = MonthHeatmapDay(user, D)
    /\ UNCHANGED <<now, tz, habits, completions, nextHid, nextCid, inflight, fnIn, fnOut, client>>

GetTodaysDueHabits(user) ==
    /\ resp' = getTodaysDueHabits(user)
    /\ UNCHANGED <<now, tz, habits, completions, nextHid, nextCid, inflight, fnIn, fnOut, client>>

NextView ==
    \/ \E u \in Users, D \in ViewDays : GetHabitsForDate(u, D)
    \/ \E u \in Users, D \in ViewDays : GetMonthHeatmapDay(u, D)
    \/ \E u \in Users : GetTodaysDueHabits(u)

SpecView == InitView /\ [][NextView]_vars

-----------------------------------------------------------------------------
(* The calendar of months.  Day 0 is the first of January; every year is a  *)
(* common year.                                                            *)

DaysInMonth == <<31, 28, 31, 30, 31, 30, 31, 31, 30, 31, 30, 31>>

RECURSIVE FirstDayOfMonth(_)
\* the day of the year, from 0, of the first day of month m (1..12)
FirstDayOfMonth(m) ==
    IF m = 1 THEN 0 ELSE FirstDayOfMonth(m - 1) + DaysInMonth[m - 1]

RECURSIVE MonthFrom(_, _)
\* the month, 1..12, of the d-th day (from 0) counted from the first of month m
MonthFrom(d, m) ==
    IF d < DaysInMonth[m] THEN m ELSE MonthFrom(d - DaysInMonth[m], m + 1)

\* Date#getMonth(): 0 = January .. 11 = December, on the local calendar
GetMonth(t) == MonthFrom(LocalDay(t) % 365, 1) - 1

\* Date#getFullYear(), counted from the year of day 0
GetFullYear(t) == LocalDay(t) \div 365

\* d.setMonth(d.getMonth() - 1): the same day of the month and time of day in
\* the previous month, a day that month does not have rolling over into the
\* next one; in both cases the length of the previous month earlier
SetMonthBack(t) ==
    LET previous == IF GetMonth(t) = 0 THEN 12 ELSE GetMonth(t)
    IN  t - DaysInMonth[previous] * TicksPerDay

-----------------------------------------------------------------------------
(* The habit lifecycle handlers: archive, soft delete, restore, purge *)

\* habit.save() of a loaded habit whose fields were assigned by update
SaveHabit(hid, update) ==
    {IF h.id = hid THEN HabitPreSave(update) ELSE h : h \in habits}

\* the answer of a lifecycle handler
LifecycleResp(op, status, hid) == [op |-> op, status |-> status, habit |-> hid]

\* an archive that also removes the habit's completions
ArchiveHabit_DropsCompletions(user, hid) ==
    /\ IF FindOwnedHabit(hid, user) = {}
       THEN /\ resp' = LifecycleResp("archiveHabit", 404, hid)
            /\ UNCHANGED <<habits, completions>>
       ELSE LET habit == CHOOSE h \in FindOwnedHabit(hid, user) : TRUE
                update == [habit EXCEPT !.isActive = FALSE, !.deletedAt = {}]
            IN  IF HabitSaveOk(update)
                THEN /\ habits' = SaveHabit(hid, update)
                     /\ completions' = {c \in completions : c.habit # hid}
                     /\ resp' = LifecycleResp("archiveHabit", 200, hid)
                ELSE /\ resp' = LifecycleResp("archiveHabit", 500, hid)
                     /\ UNCHANGED <<habits, completions>>
    /\ UNCHANGED <<now, tz, nextHid, nextCid, inflight, fnIn, fnOut, client>>

\* POST /api/habits/:id/archive
ArchiveHabit(user, hid) ==
    /\ IF FindOwnedHabit(hid, user) = {}
       THEN /\ resp' = LifecycleResp("archiveHabit", 404, hid)
            /\ UNCHANGED habits
       ELSE LET habit == CHOOSE h \in FindOwnedHabit(hid, user) : TRUE
                update == [habit EXCEPT !.isActive = FALSE, !.deletedAt = {}]
            IN  IF HabitSaveOk(update)
                THEN /\ habits' = SaveHabit(hid, update)
                     /\ resp' = LifecycleResp("archiveHabit", 200, hid)
                ELSE /\ resp' = LifecycleResp("archiveHabit", 500, hid)
                     /\ UNCHANGED habits
    /\ UNCHANGED <<now, tz, completions, nextHid, nextCid, inflight, fnIn, fnOut, client>>

\* DELETE /api/habits/:id
DeleteHabit(user, hid) ==
    /\ IF FindOwnedHabit(hid, user) = {}
       THEN /\ resp' = LifecycleResp("deleteHabit", 404, hid)
            /\ UNCHANGED habits
       ELSE LET habit == CHOOSE h \in FindOwnedHabit(hid, user) : TRUE
                update == [habit EXCEPT !.deletedAt = {now}]
            IN  IF HabitSaveOk(update)
                THEN /\ habits' = SaveHabit(hid, update)
                     /\ resp' = LifecycleResp("deleteHabit", 200, hid)
                ELSE /\ resp' = LifecycleResp("deleteHabit", 500, hid)
                     /\ UNCHANGED habits
    /\ UNCHANGED <<now, tz, completions, nextHid, nextCid, inflight, fnIn, fnOut, client>>

\* POST /api/habits/:id/restore
RestoreHabit(user, hid) ==
    /\ IF FindOwnedHabit(hid, user) = {}
       THEN /\ resp' = LifecycleResp("restoreHabit", 404, hid)
            /\ UNCHANGED habits
       ELSE LET habit == CHOOSE h \in FindOwnedHabit(hid, user) : TRUE
                update == [habit EXCEPT !.isActive = TRUE]
            IN  IF HabitSaveOk(update)
                THEN /\ habits' = SaveHabit(hid, update)
                     /\ resp' = LifecycleResp("restoreHabit", 200, hid)
                ELSE /\ resp' = LifecycleResp("restoreHabit", 500, hid)
                     /\ UNCHANGED habits
    /\ UNCHANGED <<now, tz, completions, nextHid, nextCid, inflight, fnIn, fnOut, client>>

\* a purge that measures the retention from the deletion of any user's habit
PurgedHabits_AnyUser(user, cutoff) ==
    {h \in habits : \E d \in h.deletedAt : d < cutoff}

\* Habit.deleteMany({ user, deletedAt: { $lt: oneMonthAgo } }): the matches
PurgedHabits(user, cutoff) ==
    {h \in habits : h.user = user /\ \E d \in h.deletedAt : d < cutoff}

\* POST /api/habits/cleanup
CleanupDeletedHabits(user) ==
    LET oneMonthAgo == SetMonthBack(now)
        purged == PurgedHabits(user, oneMonthAgo)
    IN  /\ habits' = habits \ purged
        /\ resp' = [op |-> "cleanupDeletedHabits", status |-> 200, user |-> user,
                    deletedCount |-> Cardinality(purged)]
        /\ UNCHANGED <<now, tz, completions, nextHid, nextCid, inflight, fnIn, fnOut, client>>

-----------------------------------------------------------------------------
(* updateHabit, and SpecHabit: createHabit and updateHabit over schedules   *)
(* with valid, empty, repeated and out-of-range days                        *)

\* PUT /api/habits/:id; a field of the body is {} when undefined.  The
\* bodies modelled leave name, color, startDate and endDate undefined.
UpdateHabit(user, hid, body) ==
    /\ IF FindOwnedHabit(hid, user) = {}
       THEN /\ resp' = LifecycleResp("updateHabit", 404, hid)
            /\ UNCHANGED habits
       ELSE LET habit == CHOOSE h \in FindOwnedHabit(hid, user) : TRUE
                frequency == IF body.frequency = {} THEN habit.frequency
                             ELSE [(CHOOSE f \in body.frequency : TRUE)
                                      EXCEPT !.daysIsArray = TRUE]
                goal == IF body.goal = {} THEN habit.goal
                        ELSE CHOOSE g \in body.goal : TRUE
                update == [habit EXCEPT !.frequency = frequency, !.goal = goal]
            IN  IF HabitSaveOk(update)
                THEN /\ habits' = SaveHabit(hid, update)
                     /\ resp' = LifecycleResp("updateHabit", 200, hid)
                ELSE /\ resp' = LifecycleResp("updateHabit", 500, hid)
                     /\ UNCHANGED habits
    /\ UNCHANGED <<now, tz, completions, nextHid, nextCid, inflight, fnIn, fnOut, client>>

\* frequency.days of the request bodies
SchedDays == {<<>>, <<0>>, <<6>>, <<1, 1>>, <<3, 1>>, <<3, 1, 3>>, <<7>>, <<1, 7>>, <<-1>>}

SchedFrequencies ==
    {[type |-> t, daysIsArray |-> TRUE, days |-> d] :
        t \in {"daily", "specific", "specific_days", "weekly"}, d \in SchedDays}
    \cup {[type |-> "specific", daysIsArray |-> FALSE, days |-> <<>>]}

SchedGoals == {[type |-> "yes_no", target |-> 1], [type |-> "target", target |-> 0]}

\* request bodies of POST /api/habits
SchedBodies ==
    {[frequency |-> f, goal |-> g, startDate |-> {}, endDate |-> {}] :
        f \in SchedFrequencies, g \in SchedGoals}

\* request bodies of PUT /api/habits/:id
SchedUpdates ==
    {[frequency |-> f, goal |-> g] :
        f \in {{}} \cup {{x} : x \in SchedFrequencies},
        g \in {{}} \cup {{x} : x \in SchedGoals}}

InitHabit ==
    /\ tz \in TZOffsets
    /\ ClientIdle
    /\ now = 0
    /\ StoreIdle
    /\ FnIdle

NextHabit ==
    \/ \E u \in Users, body \in SchedBodies : CreateHabit(u, body)
    \/ \E u \in Users, h \in HabitIds, body \in SchedUpdates : UpdateHabit(u, h, body)
    \/ \E u \in Users, h \in HabitIds : ArchiveHabit(u, h)
    \/ \E u \in Users, h \in HabitIds : RestoreHabit(u, h)

SpecHabit == InitHabit /\ [][NextHabit]_vars

-----------------------------------------------------------------------------
(* The listings: active habits, archived habits, dashboard summary *)

\* GET /api/habits
getAllHabits(user) ==
    [op |-> "getAllHabits", user |-> user,
     habits |-> {[id |-> h.id] : h \in {g \in habits : /\ g.user = user
                                                       /\ g.isActive = TRUE
                                                       /\ g.deletedAt = {}}}]

\* GET /api/habits/archived
getArchivedHabits(user) ==
    [op |-> "getArchivedHabits", user |-> user,
     habits |-> {[id |-> h.id] : h \in {g \in habits : /\ g.user = user
                                                       /\ g.isActive = FALSE
                                                       /\ g.deletedAt = {}}}]

\* GET /api/habits/summary
getHabitsSummary(user) ==
    LET found == {h \in habits : h.user = user}
        today == StartOfDay(now)
        todayCompletions == {c \in completions : /\ c.habit \in {h.id : h \in found}
                                                 /\ c.date >= today}
        completionMap == {c.habit : c \in todayCompletions}
    IN  [op |-> "getHabitsSummary", user |-> user,
         habits |-> {[id |-> h.id, completedToday |-> h.id \in completionMap]
                     : h \in found},
         totalHabits |-> Cardinality(found),
         completedToday |-> Cardinality(completionMap),
         completionRate |-> RoundedRate(Cardinality(completionMap), Cardinality(found))]

GetAllHabits(user) ==
    /\ resp' = getAllHabits(user)
    /\ UNCHANGED <<now, tz, habits, completions, nextHid, nextCid, inflight, fnIn, fnOut, client>>

GetArchivedHabits(user) ==
    /\ resp' = getArchivedHabits(user)
    /\ UNCHANGED <<now, tz, habits, completions, nextHid, nextCid, inflight, fnIn, fnOut, client>>

GetHabitsSummary(user) ==
    /\ resp' = getHabitsSummary(user)
    /\ UNCHANGED <<now, tz, habits, completions, nextHid, nextCid, inflight, fnIn, fnOut, client>>

-----------------------------------------------------------------------------
(* SpecLife: the lifecycle handlers and every listing over a store of one   *)
(* or two habits.  Habit 1 belongs to the first user; it may start archived *)
(* and may have been soft-deleted 31 days ago.  Today is the 29th of March. *)

LifeToday == 31 + 28 + 28

LifeDays == {LifeToday - 1, LifeToday, LifeToday + 1}

LifeHabit1(a, del) ==
    [id |-> 1, user |-> "u1",
     frequency |-> [type |-> "daily", daysIsArray |-> TRUE, days |-> <<>>],
     goal |-> [type |-> "yes_no", target |-> 1], isActive |-> a,
     deletedAt |-> del, startDate |-> {}, endDate |-> {}]

InitLife ==
    /\ tz \in TZOffsets
    /\ ClientIdle
    /\ now \in {t \in UtcMidnight(LifeToday - 1)..UtcMidnight(LifeToday + 2) :
                  LocalDay(t) = LifeToday}
    /\ \E a \in BOOLEAN, del \in {{}, {now - 31 * TicksPerDay}},
          others \in {{}} \cup {{ViewHabit2(u)} : u \in Users} :
          habits = {LifeHabit1(a, del)} \cup others
    /\ \E v1, v2, v3 \in {0, 1} :
          completions =
              ViewCompletion(1, 1, PrevDay(now), v1)
              \cup ViewCompletion(2, 1, StartOfDay(now), v2)
              \cup (IF \E h \in habits : h.id = 2
                    THEN ViewCompletion(3, 2, StartOfDay(now), v3)
                    ELSE {})
    /\ nextHid = 3
    /\ nextCid = 4
    /\ inflight = EmptyBag
    /\ resp = NoResp
    /\ FnIdle

NextLife ==
    \/ \E u \in Users, h \in 1..2 : ArchiveHabit(u, h)
    \/ \E u \in Users, h \in 1..2 : DeleteHabit(u, h)
    \/ \E u \in Users, h \in 1..2 : RestoreHabit(u, h)
    \/ \E u \in Users : CleanupDeletedHabits(u)
    \/ \E u \in Users : GetAllHabits(u)
    \/ \E u \in Users : GetArchivedHabits(u)
    \/ \E u \in Users : GetHabitsSummary(u)
    \/ \E u \in Users : GetTodaysDueHabits(u)
    \/ \E u \in Users, D \in LifeDays : GetHabitsForDate(u, D)
    \/ \E u \in Users, D \in LifeDays : GetMonthHeatmapDay(u, D)

SpecLife == InitLife /\ [][NextLife]_vars

-----------------------------------------------------------------------------
(* SpecCleanup: the purge at several dates, over stores whose first habit   *)
(* was soft-deleted between 27 and 32 days ago, or never                   *)

\* the 1st of February, the 28th, 29th and 31st of March, the 1st of May,
\* and the 5th of January of the next year
CleanupTodays ==
    {31, 31 + 28 + 27, 31 + 28 + 28, 31 + 28 + 30, 31 + 28 + 31 + 30, 365 + 4}

\* how long ago the habit was soft-deleted, in ticks
CleanupAges == (27 * TicksPerDay)..(32 * TicksPerDay)

InitCleanup ==
    /\ tz \in TZOffsets
    /\ ClientIdle
    /\ \E today \in CleanupTodays :
          now \in {t \in UtcMidnight(today - 1)..UtcMidnight(today + 2) :
                     LocalDay(t) = today}
    /\ \E a \in BOOLEAN, del \in {{}} \cup {{now - age} : age \in CleanupAges},
          others \in {{}, {[ViewHabit2("u2") EXCEPT !.deletedAt = {now - 40 * TicksPerDay}]}} :
          habits = {LifeHabit1(a, del)} \cup others
    /\ completions = {}
    /\ nextHid = 3
    /\ nextCid = 1
    /\ inflight = EmptyBag
    /\ resp = NoResp
    /\ FnIdle

NextCleanup ==
    \/ \E u \in Users : CleanupDeletedHabits(u)
    \/ \E u \in Users, h \in 1..2 : DeleteHabit(u, h)

SpecCleanup == InitCleanup /\ [][NextCleanup]_vars

-----------------------------------------------------------------------------
(* SpecDue: isHabitDueOnDate applied to every habit and date of a bounded   *)
(* family                                                                  *)

Frequencies ==
    {[type |-> "daily", daysIsArray |-> TRUE, days |-> <<>>],
     [type |-> "specific", daysIsArray |-> TRUE, days |-> <<0, 2, 4>>],
     [type |-> "specific", daysIsArray |-> TRUE, days |-> <<6>>],
     [type |-> "specific_days", daysIsArray |-> TRUE, days |-> <<1, 5>>],
     [type |-> "specific", daysIsArray |-> FALSE, days |-> <<>>],
     [type |-> "weekly", daysIsArray |-> TRUE, days |-> <<0>>],
     [type |-> "undefined", daysIsArray |-> FALSE, days |-> <<>>]}

DueTicks == 0..(MaxDueDay * TicksPerDay - 1)

\* optional start and end dates: null, or an instant of the second, third
\* or fifth day
WindowDates == {{}} \cup {{t} : t \in {TicksPerDay, 2 * TicksPerDay + 1, 4 * TicksPerDay}}

DueHabits ==
    [isActive : BOOLEAN, frequency : Frequencies,
     startDate : WindowDates, endDate : WindowDates]

InitDue ==
    /\ tz \in TZOffsets
    /\ ClientIdle
    /\ now = 0
    /\ StoreIdle
    /\ fnIn \in [fn : {"isHabitDueOnDate"}, habit : DueHabits, date : DueTicks]
    /\ fnOut = [fn |-> "none"]

EvalDue ==
    /\ fnIn.fn = "isHabitDueOnDate"
    /\ fnOut.fn = "none"
    /\ fnOut' = [fn |-> "isHabitDueOnDate",
                 active |-> isHabitActiveOnDate(fnIn.habit, fnIn.date),
                 result |-> isHabitDueOnDate(fnIn.habit, fnIn.date)]
    /\ UNCHANGED <<now, tz, storeVars, fnIn, client>>

NextDue == EvalDue

SpecDue == InitDue /\ [][NextDue]_vars

-----------------------------------------------------------------------------
(* Streak calculators *)

\* insert c into a sequence sorted by date descending, after its equals
\* ([...completions].sort((a, b) => b.date - a.date) is a stable sort)
RECURSIVE InsertByDateDesc(_, _)
InsertByDateDesc(seq, c) ==
    IF seq = <<>> THEN <<c>>
    ELSE IF Head(seq).date >= c.date THEN <<Head(seq)>> \o InsertByDateDesc(Tail(seq), c)
    ELSE <<c>> \o seq

RECURSIVE SortByDateDesc(_)
SortByDateDesc(seq) ==
    IF seq = <<>> THEN <<>>
    ELSE InsertByDateDesc(SortByDateDesc(SubSeq(seq, 1, Len(seq) - 1)), seq[Len(seq)])

\* Math.floor((checkDate - completionDate) / (1000 * 60 * 60 * 24))
DaysDiff(checkDate, completionDate) == (checkDate - completionDate) \div TicksPerDay

StreakStart(t) ==
    [currentStreak |-> 0, longestStreak |-> 0, tempStreak |-> 0,
     checkDate |-> StartOfDay(t), streakBroken |-> FALSE]

\* the branch of either loop that extends the running streak
StreakExtend(acc, checkDate) ==
    [acc EXCEPT !.currentStreak = IF acc.streakBroken THEN @ ELSE @ + 1,
                !.tempStreak = @ + 1,
                !.checkDate = checkDate]

\* a break that forgets to fold the ended run into longestStreak
StreakBreak_KeepLongest(acc, checkDate) ==
    [acc EXCEPT !.streakBroken = TRUE,
                !.tempStreak = 1,
                !.checkDate = checkDate]

\* the branch of either loop that ends the running streak
StreakBreak(acc, checkDate) ==
    [acc EXCEPT !.streakBroken = TRUE,
                !.longestStreak = Max(@, acc.tempStreak),
                !.tempStreak = 1,
                !.checkDate = checkDate]

\* the returned pair without the closing update of longestStreak
StreakResult_NoClosingUpdate(acc) ==
    [currentStreak |-> acc.currentStreak,
     longestStreak |-> acc.longestStreak]

\* the closing update of longestStreak and the returned pair
StreakResult(acc) ==
    [currentStreak |-> acc.currentStreak,
     longestStreak |-> Max(acc.longestStreak, acc.tempStreak)]

\* an iteration that lets a one-day gap continue the streak
calculateStreaksStep_GapOfOne(acc, completion) ==
    LET completionDate == StartOfDay(completion.date)
    IN  IF completionDate = acc.checkDate
        THEN StreakExtend(acc, PrevDay(acc.checkDate))
        ELSE IF DaysDiff(acc.checkDate, completionDate) \in {0, 1}
             THEN StreakExtend(acc, PrevDay(completionDate))
             ELSE StreakBreak(acc, PrevDay(completionDate))

\* one iteration of the for loop of the controller's calculateStreaks
calculateStreaksStep(acc, completion) ==
    LET completionDate == StartOfDay(completion.date)
    IN  IF completionDate = acc.checkDate
        THEN StreakExtend(acc, PrevDay(acc.checkDate))
        ELSE IF DaysDiff(acc.checkDate, completionDate) = 0
             THEN StreakExtend(acc, PrevDay(completionDate))
             ELSE StreakBreak(acc, PrevDay(completionDate))

RECURSIVE calculateStreaksLoop(_, _, _)
calculateStreaksLoop(sorted, i, acc) ==
    IF i > Len(sorted) THEN acc
    ELSE calculateStreaksLoop(sorted, i + 1, calculateStreaksStep(acc, sorted[i]))

\* habitController.js calculateStreaks, evaluated at instant t
calculateStreaks(comps, t) ==
    IF Len(comps) = 0 THEN [currentStreak |-> 0, longestStreak |-> 0]
    ELSE StreakResult(calculateStreaksLoop(SortByDateDesc(comps), 1, StreakStart(t)))

\* one iteration of the for loop of the model's static calculateStreak
calculateStreakStep(acc, completion) ==
    LET completionDate == StartOfDay(completion.date)
        daysDiff == DaysDiff(acc.checkDate, completionDate)
    IN  IF daysDiff = 0 THEN StreakExtend(acc, PrevDay(acc.checkDate))
        ELSE IF daysDiff = 1 THEN StreakExtend(acc, PrevDay(completionDate))
        ELSE StreakBreak(acc, PrevDay(completionDate))

RECURSIVE calculateStreakLoop(_, _, _)
calculateStreakLoop(sorted, i, acc) ==
    IF i > Len(sorted) THEN acc
    ELSE calculateStreakLoop(sorted, i + 1, calculateStreakStep(acc, sorted[i]))

\* Completion.js statics.calculateStreak, over the habit's completions as
\* find({habit}).sort({date: -1}) returns them, evaluated at instant t
calculateStreak(comps, t) ==
    IF Len(comps) = 0 THEN [currentStreak |-> 0, longestStreak |-> 0]
    ELSE StreakResult(calculateStreakLoop(SortByDateDesc(comps), 1, StreakStart(t)))

-----------------------------------------------------------------------------
(* SpecStreak: both streak calculators applied to every history of a       *)
(* bounded family; a history gives each day of HistDays a number of         *)
(* completions, each dated at the local midnight of its day                *)

HistDays == 1..MaxHistDay

LocalMidnightOf(D) == D * TicksPerDay - tz

RECURSIVE HistorySeq(_, _)
\* the completions of days 1..D in ascending date order, cnt[d] per day
HistorySeq(cnt, D) ==
    IF D = 0 THEN <<>>
    ELSE HistorySeq(cnt, D - 1) \o
         [i \in 1..cnt[D] |-> [date |-> LocalMidnightOf(D), value |-> 1]]

InitStreak ==
    /\ tz \in TZOffsets
    /\ ClientIdle
    /\ StoreIdle
    /\ \E cnt \in [HistDays -> 0..MaxPerDay] :
          /\ now \in {t \in 0..((MaxHistDay + 3) * TicksPerDay) :
                        \A d \in HistDays : cnt[d] > 0 => LocalDay(t) >= d}
          /\ fnIn = [fn |-> "streaks", completions |-> HistorySeq(cnt, MaxHistDay)]
    /\ fnOut = [fn |-> "streaks", controller |-> {}, static |-> {}]

EvalCalculateStreaks ==
    /\ fnIn.fn = "streaks"
    /\ fnOut.controller = {}
    /\ fnOut' = [fnOut EXCEPT !.controller = {calculateStreaks(fnIn.completions, now)}]
    /\ UNCHANGED <<now, tz, storeVars, fnIn, client>>

EvalCalculateStreak ==
    /\ fnIn.fn = "streaks"
    /\ fnOut.static = {}
    /\ fnOut' = [fnOut EXCEPT !.static = {calculateStreak(fnIn.completions, now)}]
    /\ UNCHANGED <<now, tz, storeVars, fnIn, client>>

NextStreak == EvalCalculateStreaks \/ EvalCalculateStreak

SpecStreak == InitStreak /\ [][NextStreak]_vars

-----------------------------------------------------------------------------
(* The statistics helpers of getHabitStats *)

\* the offset, in days before today, of the first heatmap entry
HeatmapFirstOffset == 364

\* completionMap[dateStr] of prepareHeatmapData: the values of the
\* completions whose date falls, in UTC, on calendar day D
RECURSIVE CompletionMapAt(_, _, _)
CompletionMapAt(comps, i, D) ==
    IF i > Len(comps) THEN 0
    ELSE (IF UtcDay(comps[i].date) = D THEN comps[i].value ELSE 0)
         + CompletionMapAt(comps, i + 1, D)

\* habitController.js prepareHeatmapData, evaluated at instant t: entry i is
\* the UTC date of t moved back HeatmapFirstOffset - (i - 1) days
prepareHeatmapData(comps, t) ==
    [i \in 1..(HeatmapFirstOffset + 1) |->
        LET date == t - (HeatmapFirstOffset - (i - 1)) * TicksPerDay
        IN  [date |-> UtcDay(date),
             count |-> CompletionMapAt(comps, 1, UtcDay(date))]]

\* `${date.getFullYear()}-${month padded to two digits}`: keys of one width,
\* which sort as the months they name; the key is the number of the month
\* counted from January of year 0
MonthKey(date) == GetFullYear(date) * 12 + GetMonth(date)

\* monthlyData[key] of prepareChartData
RECURSIVE MonthlyData(_, _, _)
MonthlyData(comps, i, key) ==
    IF i > Len(comps) THEN 0
    ELSE (IF MonthKey(comps[i].date) = key THEN comps[i].value ELSE 0)
         + MonthlyData(comps, i + 1, key)

\* the first twelve keys instead of the last twelve
LastTwelve_FirstTwelve(keys) ==
    IF Len(keys) <= 12 THEN keys ELSE SubSeq(keys, 1, 12)

\* .slice(-12)
LastTwelve(keys) ==
    IF Len(keys) <= 12 THEN keys ELSE SubSeq(keys, Len(keys) - 11, Len(keys))

\* habitController.js prepareChartData: an entry's name stands for
\* `${monthNames[month - 1]} ${year}`
prepareChartData(comps) ==
    LET keys == Ascending({MonthKey(comps[i].date) : i \in 1..Len(comps)})
        kept == LastTwelve(keys)
    IN  [i \in 1..Len(kept) |->
            [name |-> [month |-> (kept[i] % 12) + 1, year |-> kept[i] \div 12],
             value |-> MonthlyData(comps, 1, kept[i])]]

-----------------------------------------------------------------------------
(* SpecHeat: prepareHeatmapData over every history of a bounded family: a   *)
(* habit's completions, at most one a day, on days at both ends of the      *)
(* window and just before it                                               *)

\* today, and how many days before today a completion may be dated
HeatToday == 365 + 35

\* the value of a day's completion, 0 for a day without one
HeatValues == {0, 1, 2}

HeatOffsets == {0, 1, HeatmapFirstOffset - 1, HeatmapFirstOffset, HeatmapFirstOffset + 1}

RECURSIVE HeatHistory(_, _)
\* the completions of the days today - k, k in offsets, oldest first
HeatHistory(val, offsets) ==
    IF offsets = {} THEN <<>>
    ELSE LET k == CHOOSE x \in offsets : \A y \in offsets : x >= y
         IN  (IF val[k] = 0 THEN <<>>
              ELSE <<[date |-> LocalMidnightOf(HeatToday - k), value |-> val[k]]>>)
             \o HeatHistory(val, offsets \ {k})

InitHeat ==
    /\ tz \in TZOffsets
    /\ ClientIdle
    /\ StoreIdle
    /\ now \in {t \in UtcMidnight(HeatToday - 1)..UtcMidnight(HeatToday + 2) :
                  LocalDay(t) = HeatToday}
    /\ \E val \in [HeatOffsets -> HeatValues] :
          fnIn = [fn |-> "prepareHeatmapData", completions |-> HeatHistory(val, HeatOffsets)]
    /\ fnOut = [fn |-> "none"]

EvalPrepareHeatmapData ==
    /\ fnIn.fn = "prepareHeatmapData"
    /\ fnOut.fn = "none"
    /\ fnOut' = [fn |-> "prepareHeatmapData",
                 result |-> prepareHeatmapData(fnIn.completions, now)]
    /\ UNCHANGED <<now, tz, storeVars, fnIn, client>>

NextHeat == EvalPrepareHeatmapData

SpecHeat == InitHeat /\ [][NextHeat]_vars

-----------------------------------------------------------------------------
(* SpecChart: prepareChartData over every history of a bounded family: for  *)
(* each of the months 0..MaxChartMonths a completion on its first day or    *)
(* none, and in the even months a second one on their last day             *)

\* the first day of month k, counted from January of year 0
ChartMonthStart(k) == (k \div 12) * 365 + FirstDayOfMonth((k % 12) + 1)

ChartMonths == 0..MaxChartMonths

RECURSIVE ChartHistory(_, _)
\* the completions of the months of S that are in months k and later, oldest
\* first
ChartHistory(S, k) ==
    IF k > MaxChartMonths THEN <<>>
    ELSE (IF k \notin S THEN <<>>
          ELSE <<[date |-> LocalMidnightOf(ChartMonthStart(k)), value |-> 1]>>
               \o (IF k % 2 = 0
                   THEN <<[date |-> LocalMidnightOf(ChartMonthStart(k + 1) - 1),
                           value |-> 2]>>
                   ELSE <<>>))
         \o ChartHistory(S, k + 1)

InitChart ==
    /\ tz \in TZOffsets
    /\ ClientIdle
    /\ StoreIdle
    /\ now = LocalMidnightOf(ChartMonthStart(MaxChartMonths + 1))
    /\ \E S \in SUBSET ChartMonths :
          fnIn = [fn |-> "prepareChartData", completions |-> ChartHistory(S, 0)]
    /\ fnOut = [fn |-> "none"]

EvalPrepareChartData ==
    /\ fnIn.fn = "prepareChartData"
    /\ fnOut.fn = "none"
    /\ fnOut' = [fn |-> "prepareChartData", result |-> prepareChartData(fnIn.completions)]
    /\ UNCHANGED <<now, tz, storeVars, fnIn, client>>

NextChart == EvalPrepareChartData

SpecChart == InitChart /\ [][NextChart]_vars

-----------------------------------------------------------------------------
(* getHabitStats: the statistics of one habit *)

RECURSIVE SortByDateAsc(_)
\* Completion.find(...).sort({ date: 1 }) over a set of documents
SortByDateAsc(docs) ==
    IF docs = {} THEN <<>>
    ELSE LET first == CHOOSE c \in docs :
                          \A d \in docs : c.date < d.date \/ (c.date = d.date /\ c.id <= d.id)
         IN  <<first>> \o SortByDateAsc(docs \ {first})

\* Completion.find({ habit }).sort({ date: 1 }) over a collection
CompletionsOfHabit(coll, hid) == SortByDateAsc({c \in coll : c.habit = hid})

\* the body getHabitStats answers with, from the completions found, at
\* instant t
HabitStats(found, t) ==
    [currentStreak |-> calculateStreaks(found, t).currentStreak,
     longestStreak |-> calculateStreaks(found, t).longestStreak,
     totalCompletions |-> Len(found),
     heatmapData |-> prepareHeatmapData(found, t),
     chartData |-> prepareChartData(found)]

\* GET /api/habits/:id/stats
getHabitStats(user, hid) ==
    IF FindOwnedHabit(hid, user) = {}
    THEN [op |-> "getHabitStats", status |-> 404]
    ELSE [op |-> "getHabitStats", status |-> 200,
          body |-> HabitStats(CompletionsOfHabit(completions, hid), now)]

GetHabitStats(user, hid) ==
    /\ resp' = getHabitStats(user, hid)
    /\ UNCHANGED <<now, tz, habits, completions, nextHid, nextCid, inflight, fnIn, fnOut, client>>

-----------------------------------------------------------------------------
(* SpecArchive: archive, restore and soft delete of a habit that has a      *)
(* completion history, with its statistics and the active list read in      *)
(* between                                                                  *)

InitArchive ==
    /\ tz \in TZOffsets
    /\ ClientIdle
    /\ now \in {t \in UtcMidnight(HeatToday - 1)..UtcMidnight(HeatToday + 2) :
                  LocalDay(t) = HeatToday}
    /\ \E a \in BOOLEAN : habits = {LifeHabit1(a, {}), ViewHabit2("u2")}
    /\ \E v1, v2, v3 \in {0, 1} :
          completions =
              ViewCompletion(1, 1, LocalMidnightOf(HeatToday - 40), v1)
              \cup ViewCompletion(2, 1, PrevDay(now), v2)
              \cup ViewCompletion(3, 1, StartOfDay(now), v3)
    /\ nextHid = 3
    /\ nextCid = 4
    /\ inflight = EmptyBag
    /\ resp = NoResp
    /\ FnIdle

NextArchive ==
    \/ \E u \in Users, h \in 1..2 : ArchiveHabit(u, h)
    \/ \E u \in Users, h \in 1..2 : RestoreHabit(u, h)
    \/ \E u \in Users, h \in 1..2 : DeleteHabit(u, h)
    \/ \E u \in Users, h \in 1..2 : GetHabitStats(u, h)
    \/ \E u \in Users : GetAllHabits(u)

SpecArchive == InitArchive /\ [][NextArchive]_vars

-----------------------------------------------------------------------------
(* SpecColor: getHeatmapColor applied to every integer rate of 0..100 *)

Rates == 0..100

InitColor ==
    /\ tz \in TZOffsets
    /\ ClientIdle
    /\ now = 0
    /\ StoreIdle
    /\ fnIn \in [fn : {"getHeatmapColor"}, rate : Rates]
    /\ fnOut = [fn |-> "none"]

EvalGetHeatmapColor ==
    /\ fnIn.fn = "getHeatmapColor"
    /\ fnOut.fn = "none"
    /\ fnOut' = [fn |-> "getHeatmapColor", color |-> getHeatmapColor(fnIn.rate)]
    /\ UNCHANGED <<now, tz, storeVars, fnIn, client>>

NextColor == EvalGetHeatmapColor

SpecColor == InitColor /\ [][NextColor]_vars

-----------------------------------------------------------------------------
(* completionController: the reads, and SpecOwner: two users' habits and    *)
(* completions under the completion handlers                               *)

\* GET /api/completions/today
getTodayCompletions(user) ==
    LET today == StartOfDay(now)
        tomorrow == NextDay(now)
    IN  [op |-> "getTodayCompletions", user |-> user,
         completions |-> {c \in completions : c.date >= today /\ c.date < tomorrow}]

\* GET /api/completions?startDate=&endDate=&habitId=; a field of the query
\* is {} when absent, and a date is given as the calendar day it names
getCompletionsByRange(user, query) ==
    [op |-> "getCompletionsByRange", user |-> user,
     completions |->
        {c \in completions :
            /\ \A hid \in query.habitId : c.habit = hid
            /\ \A D \in query.startDate : c.date >= StartOfDay(UtcMidnight(D))
            /\ \A D \in query.endDate : c.date <= EndOfDay(UtcMidnight(D))}]

GetTodayCompletions(user) ==
    /\ resp' = getTodayCompletions(user)
    /\ UNCHANGED <<now, tz, habits, completions, nextHid, nextCid, inflight, fnIn, fnOut, client>>

GetCompletionsByRange(user, query) ==
    /\ resp' = getCompletionsByRange(user, query)
    /\ UNCHANGED <<now, tz, habits, completions, nextHid, nextCid, inflight, fnIn, fnOut, client>>

\* the queries of GET /api/completions
RangeQueries ==
    [habitId : {{}, {1}, {2}},
     startDate : {{}, {LifeToday - 1}, {LifeToday}},
     endDate : {{}, {LifeToday}}]

InitOwner ==
    /\ tz \in TZOffsets
    /\ ClientIdle
    /\ now \in {t \in UtcMidnight(LifeToday - 1)..UtcMidnight(LifeToday + 2) :
                  LocalDay(t) = LifeToday}
    /\ habits = {LifeHabit1(TRUE, {}), ViewHabit2("u2")}
    /\ completions =
          ViewCompletion(1, 1, PrevDay(now), 1)
          \cup ViewCompletion(2, 1, StartOfDay(now), 1)
          \cup ViewCompletion(3, 2, PrevDay(now), 1)
          \cup ViewCompletion(4, 2, StartOfDay(now), 1)
    /\ nextHid = 3
    /\ nextCid = 5
    /\ inflight = EmptyBag
    /\ resp = NoResp
    /\ FnIdle

NextOwner ==
    \/ \E u \in Users, cid \in 1..4 : DeleteCompletion(u, cid)
    \/ \E u \in Users : GetTodayCompletions(u)
    \/ \E u \in Users, q \in RangeQueries : GetCompletionsByRange(u, q)

SpecOwner == InitOwner /\ [][NextOwner]_vars

-----------------------------------------------------------------------------
(* The client's HabitContext, and SpecClient: one user checking in and      *)
(* unchecking one habit within a day                                        *)

\* the largest progress the client is let to reach
MaxProgress == 4

\* the user logged in at the client
ClientUser == "u1"

\* updated[habitId] = entry
PutEntry(entries, hid, entry) ==
    [k \in (DOMAIN entries) \cup {hid} |-> IF k = hid THEN entry ELSE entries[k]]

\* delete updated[habitId]
DropEntry(entries, hid) == [k \in (DOMAIN entries) \ {hid} |-> entries[k]]

\* entries[habitId], or the entry both readers and writers start from
EntryOf(entries, hid) ==
    IF hid \in DOMAIN entries THEN entries[hid]
    ELSE [completed |-> FALSE, progress |-> 0]

\* a query result as the array the client receives, in insertion order
RECURSIVE AsArray(_)
AsArray(docs) ==
    IF docs = {} THEN <<>>
    ELSE LET first == CHOOSE c \in docs : \A d \in docs : c.id <= d.id
         IN  <<first>> \o AsArray(docs \ {first})

\* HabitContext organizeCompletions, at instant t: the forEach from element i
\* on, over the entries built so far
RECURSIVE organizeCompletionsFrom(_, _, _, _)
organizeCompletionsFrom(arr, i, organized, t) ==
    IF i > Len(arr) THEN organized
    ELSE LET completion == arr[i]
             entry == EntryOf(organized, completion.habit)
             next == IF UtcDay(completion.date) # UtcDay(t) THEN organized
                     ELSE IF completion.value = 1
                          THEN PutEntry(organized, completion.habit,
                                        [completed |-> TRUE, progress |-> 1])
                          ELSE PutEntry(organized, completion.habit,
                                        [entry EXCEPT !.progress = @ + completion.value])
         IN  organizeCompletionsFrom(arr, i + 1, next, t)

organizeCompletions(arr, t) == organizeCompletionsFrom(arr, 1, NoEntries, t)

\* logCompletion served from request to response with no other request in
\* between: the answers it can give, each with the store it leaves
logCompletionRuns(user, hid, value) ==
    LET unchanged(status) ==
            [resp |-> [op |-> "logCompletion", status |-> status],
             completions |-> completions, nextCid |-> nextCid]
        found == FindTodaysCompletion(hid, StartOfDay(now))
        fresh == [id |-> nextCid, habit |-> hid,
                  date |-> StartOfDay(now), value |-> ValueOrOne(value)]
    IN  IF FindOwnedHabit(hid, user) = {} THEN {unchanged(404)}
        ELSE IF ~CompletionValueValid(ValueOrOne(value)) THEN {unchanged(500)}
        ELSE IF found # {}
             THEN {[resp |-> CompletionResp(200, ValueOrOne(value)),
                    completions |->
                        {IF c = existing
                         THEN [c EXCEPT !.value = UpdatedValue(c.value, value),
                                        !.date = StartOfDay(c.date)]
                         ELSE c : c \in completions},
                    nextCid |-> nextCid] : existing \in found}
        ELSE IF UniqueIndexAdmits(completions, fresh)
             THEN {[resp |-> CompletionResp(201, ValueOrOne(value)),
                    completions |-> completions \cup {fresh},
                    nextCid |-> nextCid + 1]}
             ELSE {unchanged(500)}

\* HabitContext checkInHabit(habitId, value) with its request served
CheckInHabit(hid, value) ==
    /\ \E habit \in {h \in habits : h.id = hid /\ h.user = ClientUser} :
          LET isTargetGoal == habit.goal.type = "target"
              newProgress == EntryOf(client, hid).progress + value
              optimistic ==
                  PutEntry(client, hid,
                           [completed |-> IF isTargetGoal
                                          THEN newProgress >= habit.goal.target
                                          ELSE TRUE,
                            progress |-> newProgress])
              revertedProgress == Max(0, newProgress - value)
              reverted ==
                  PutEntry(client, hid,
                           [completed |-> IF isTargetGoal
                                          THEN revertedProgress >= habit.goal.target
                                          ELSE revertedProgress >= 1,
                            progress |-> revertedProgress])
          IN  /\ newProgress <= MaxProgress
              /\ \E run \in logCompletionRuns(ClientUser, hid, value) :
                    /\ run.nextCid <= MaxCompletionIds + 1
                    /\ completions' = run.completions
                    /\ nextCid' = run.nextCid
                    /\ resp' = run.resp
                    /\ client' = IF run.resp.status \in {200, 201}
                                 THEN optimistic ELSE reverted
    /\ UNCHANGED <<now, tz, habits, nextHid, inflight, fnIn, fnOut>>

\* HabitContext uncheckHabit(habitId) with its requests served
UncheckHabit(hid) ==
    LET completionsData == AsArray(getTodayCompletions(ClientUser).completions)
        matches == {i \in 1..Len(completionsData) : completionsData[i].habit = hid}
    IN  /\ IF matches = {} THEN UNCHANGED completions
           ELSE LET todayCompletion ==
                        completionsData[CHOOSE i \in matches : \A j \in matches : i <= j]
                IN  completions' = {c \in completions : c.id # todayCompletion.id}
        /\ client' = DropEntry(client, hid)
        /\ resp' = NoResp
        /\ UNCHANGED <<now, tz, habits, nextHid, nextCid, inflight, fnIn, fnOut>>

\* HabitContext refreshCompletions with its request served
RefreshCompletions ==
    /\ client' = organizeCompletions(
                     AsArray(getTodayCompletions(ClientUser).completions), now)
    /\ resp' = NoResp
    /\ UNCHANGED <<now, tz, habits, completions, nextHid, nextCid, inflight, fnIn, fnOut>>

\* the value argument of checkInHabit: the default 1, and 2
ClientValues == {1, 2}

InitClient ==
    /\ tz \in TZOffsets
    /\ now \in {t \in UtcMidnight(LifeToday - 1)..UtcMidnight(LifeToday + 2) :
                  LocalDay(t) = LifeToday}
    /\ \E g \in ViewGoals : habits = {[LifeHabit1(TRUE, {}) EXCEPT !.goal = g]}
    /\ completions = {}
    /\ nextHid = 2
    /\ nextCid = 1
    /\ inflight = EmptyBag
    /\ resp = NoResp
    /\ FnIdle
    /\ client = organizeCompletions(<<>>, now)

NextClient ==
    \/ \E v \in ClientValues : CheckInHabit(1, v)
    \/ UncheckHabit(1)
    \/ RefreshCompletions

SpecClient == InitClient /\ [][NextClient]_vars

-----------------------------------------------------------------------------
(* Properties of the check-in handlers (Spec) *)

\* the completions stored for a habit on a calendar day
CompletionsOn(hid, day) ==
    {c \in completions : c.habit = hid /\ LocalDay(c.date) = day}

\* C1: whatever check-ins and unchecks were served, repeated and interleaved
\* same-day check-ins included, the Completion store holds at most one
\* completion per habit and calendar day.
C1_OneCompletionPerHabitDay ==
    \A c1, c2 \in completions :
        (c1.habit = c2.habit /\ LocalDay(c1.date) = LocalDay(c2.date)) => c1 = c2

\* a repeated same-day check-in has just answered 200: the only completion
\* ever inserted is today's, and it is still the only one
C1_Witness ==
    /\ resp.op = "logCompletion"
    /\ resp.status = 200
    /\ nextCid = 2
    /\ \E h \in habits : Cardinality(CompletionsOn(h.id, LocalDay(now))) = 1

\* C2: a check-in of v2 that finds today's completion with value v1 leaves
\* that completion with value v1 + v2.
C2_AccumulateByUpdate ==
    [][\A req \in BagToSet(inflight) :
          (/\ inflight' = inflight (-) SetToBag({req})
           /\ resp'.op = "logCompletion"
           /\ resp'.status = 200)
          => \A c \in completions :
                c.id \in req.existing =>
                    \E d \in completions' :
                        d.id = c.id /\ d.value = c.value + resp'.requested]_vars

-----------------------------------------------------------------------------
(* Properties of the read handlers (SpecView) *)

\* the value logged for a habit on a calendar day, 0 when there is none
ValueOn(hid, day) ==
    IF CompletionsOn(hid, day) = {} THEN 0
    ELSE (CHOOSE c \in CompletionsOn(hid, day) : TRUE).value

\* the goal of a habit is met on a day
GoalMet(habit, day) ==
    IF habit.goal.type = "target" THEN ValueOn(habit.id, day) >= habit.goal.target
    ELSE CompletionsOn(habit.id, day) # {}

\* C3: for each due Target habit the day view reports the completion's value
\* as progress and completed = (progress >= target); a completion below the
\* target is not counted in completedCount, in the day view or the month view.
C3_TargetProgressDecidesCompleted ==
    /\ resp.op = "getHabitsForDate" =>
          LET day == LocalDay(UtcMidnight(resp.date))
          IN  /\ \A st \in resp.habits : \A h \in habits :
                    (h.id = st.id /\ h.goal.type = "target") =>
                        /\ st.completionValue = ValueOn(h.id, day)
                        /\ st.completed = (st.completionValue >= h.goal.target)
              /\ resp.completedCount =
                    Cardinality({st \in resp.habits :
                                    \E h \in habits : h.id = st.id /\ GoalMet(h, day)})
    /\ resp.op = "getMonthHeatmap" =>
          resp.completedCount =
              Cardinality({h \in habits :
                              /\ h.user = resp.user
                              /\ isHabitDueOnDate(h, resp.day * TicksPerDay - tz)
                              /\ GoalMet(h, resp.day)})

\* C10: the due-today listing is exactly the set of the requesting user's
\* habits that isHabitDueOnDate holds due today.
C10_DueTodayAgreesWithEvaluator ==
    resp.op = "getTodaysDueHabits" =>
        {st.id : st \in resp.habits} =
            {h.id : h \in {g \in habits : g.user = resp.user /\ isHabitDueOnDate(g, now)}}

-----------------------------------------------------------------------------
(* Properties of the streak calculators (SpecStreak) *)

\* the calendar days that have a completion in the history under evaluation
HistoryDays == {LocalDay(fnIn.completions[i].date) : i \in 1..Len(fnIn.completions)}

\* no two completions of the history share a calendar day
DistinctDays ==
    \A i, j \in 1..Len(fnIn.completions) :
        i # j => LocalDay(fnIn.completions[i].date) # LocalDay(fnIn.completions[j].date)

Today == LocalDay(now)

\* number of consecutive days d, d-1, d-2, ... that all belong to S
RunEndingAt(S, d) ==
    Cardinality({k \in 0..Cardinality(S) : \A j \in 0..k : (d - j) \in S})

\* length of the longest run of consecutive days in S
LongestRun(S) ==
    IF S = {} THEN 0
    ELSE CHOOSE m \in 0..Cardinality(S) :
            /\ \E d \in S : RunEndingAt(S, d) = m
            /\ \A d \in S : RunEndingAt(S, d) <= m

StreaksEvaluated == fnIn.fn = "streaks" /\ fnOut.controller # {}

\* C4: with no completion today and one yesterday, calculateStreaks reports as
\* currentStreak the length of the run of completed days that ends yesterday,
\* and it reports 0 only when the last completed day is older than yesterday.
C4_YesterdayKeepsStreak ==
    (StreaksEvaluated /\ DistinctDays) =>
        \A r \in fnOut.controller :
            /\ (Today \notin HistoryDays /\ (Today - 1) \in HistoryDays)
                  => r.currentStreak = RunEndingAt(HistoryDays, Today - 1)
            /\ r.currentStreak = 0
                  => \A d \in HistoryDays : d < Today - 1

\* C5: when today is completed, currentStreak is the number of consecutive
\* completed days ending today; days beyond the first gap never count.
C5_CurrentStreakFromToday ==
    (StreaksEvaluated /\ DistinctDays /\ Today \in HistoryDays) =>
        \A r \in fnOut.controller :
            r.currentStreak = RunEndingAt(HistoryDays, Today)

\* Scenario B: completions on T, T-1 and T-3 give current = 2 and longest = 2
C5_Witness ==
    /\ StreaksEvaluated
    /\ HistoryDays = {Today, Today - 1, Today - 3}
    /\ DistinctDays
    /\ fnOut.controller = {[currentStreak |-> 2, longestStreak |-> 2]}

\* C6: longestStreak is the length of the longest run of consecutive completed
\* days anywhere in the history; the empty history gives 0 and 0.
C6_LongestStreakIsLongestRun ==
    (StreaksEvaluated /\ DistinctDays) =>
        \A r \in fnOut.controller :
            /\ r.longestStreak = LongestRun(HistoryDays)
            /\ HistoryDays = {} => r.currentStreak = 0

\* the longest run is an old one: it ends before a gap, the current run is shorter
C6_Witness ==
    /\ StreaksEvaluated
    /\ DistinctDays
    /\ Today \in HistoryDays
    /\ \E r \in fnOut.controller :
          /\ r.currentStreak >= 1
          /\ r.longestStreak > r.currentStreak
          /\ r.longestStreak = LongestRun(HistoryDays)

\* C7: both calculators return longestStreak >= currentStreak, for every
\* history (same-day duplicates included) and every evaluation day.
C7_LongestAtLeastCurrent ==
    fnIn.fn = "streaks" =>
        \A r \in fnOut.controller \cup fnOut.static :
            r.longestStreak >= r.currentStreak

\* both calculators have run on a history whose current streak is not empty
\* and follows an older, ended run
C7_Witness ==
    /\ fnIn.fn = "streaks"
    /\ fnOut.controller # {}
    /\ fnOut.static # {}
    /\ \E d \in HistoryDays : d < Today - 2 /\ (d + 1) \notin HistoryDays
    /\ \A r \in fnOut.controller \cup fnOut.static :
          r.currentStreak >= 2 /\ r.longestStreak >= r.currentStreak

-----------------------------------------------------------------------------
(* Properties of the due-date evaluator (SpecDue) *)

DueEvaluated == fnIn.fn = "isHabitDueOnDate" /\ fnOut.fn = "isHabitDueOnDate"

\* the date's calendar day is not before the start day nor after the end day
InsideWindow(habit, date) ==
    /\ \A s \in habit.startDate : LocalDay(date) >= LocalDay(s)
    /\ \A e \in habit.endDate : LocalDay(date) <= LocalDay(e)

\* Monday = 0 day of the week from the native Sunday = 0 one: 0 -> 6, n -> n - 1
MonFirstOfNative(n) == (n + 6) % 7

IsDaily(habit) == habit.frequency.type = "daily"

IsSpecificDays(habit) ==
    /\ habit.frequency.type \in {"specific", "specific_days"}
    /\ habit.frequency.daysIsArray

\* what C8 expects of a habit on a date inside its window
DueByFrequency(habit, date, result) ==
    /\ IsDaily(habit) => result = TRUE
    /\ IsSpecificDays(habit) =>
          result = (\E i \in 1..Len(habit.frequency.days) :
                       habit.frequency.days[i] = MonFirstOfNative(LocalDay(date) % 7))

\* C8 as stated: for every habit, archived or not, and every date inside
\* its window (or with no window), isHabitDueOnDate is true when Daily and
\* is (dayOfWeekMonFirst(d) in days) when SpecificDays.
C8_DueByFrequencyAnyHabit ==
    (DueEvaluated /\ InsideWindow(fnIn.habit, fnIn.date)) =>
        DueByFrequency(fnIn.habit, fnIn.date, fnOut.result)

\* C8 amended: the same, for every habit that is not archived (isActive is
\* not false).
C8_DueByFrequency ==
    (DueEvaluated /\ fnIn.habit.isActive /\ InsideWindow(fnIn.habit, fnIn.date)) =>
        DueByFrequency(fnIn.habit, fnIn.date, fnOut.result)

\* Scenario C on a Sunday-sensitive case: a habit of Sunday only (day 6) is
\* due on a native day 0
C8_Witness ==
    /\ DueEvaluated
    /\ fnIn.habit.isActive
    /\ InsideWindow(fnIn.habit, fnIn.date)
    /\ fnIn.habit.startDate # {}
    /\ fnIn.habit.frequency = [type |-> "specific", daysIsArray |-> TRUE, days |-> <<6>>]
    /\ LocalDay(fnIn.date) % 7 = 0
    /\ fnOut.result = TRUE

\* C9: on a date whose calendar day is before the start day or after the end
\* day isHabitDueOnDate is false whatever the frequency; the start day and
\* the end day themselves, up to their last instant, pass the window check.
C9_ClosedDayWindow ==
    DueEvaluated =>
        /\ ~InsideWindow(fnIn.habit, fnIn.date)
              => (fnOut.result = FALSE /\ fnOut.active = FALSE)
        /\ (fnIn.habit.isActive /\ InsideWindow(fnIn.habit, fnIn.date))
              => fnOut.active = TRUE

\* a daily habit evaluated on its end day, at an instant later than the
\* stored end date, is still due
C9_Witness ==
    /\ DueEvaluated
    /\ fnIn.habit.isActive
    /\ IsDaily(fnIn.habit)
    /\ \E e \in fnIn.habit.endDate : fnIn.date > e /\ LocalDay(fnIn.date) = LocalDay(e)
    /\ fnOut.result = TRUE

-----------------------------------------------------------------------------
(* Properties of the habit lifecycle (SpecLife, SpecCleanup) *)

\* the stored habit with this id is soft-deleted
SoftDeleted(hid) == \E h \in habits : h.id = hid /\ h.deletedAt # {}

ListingOps ==
    {"getAllHabits", "getArchivedHabits", "getTodaysDueHabits",
     "getHabitsForDate", "getHabitsSummary"}

\* C11: a habit whose deletedAt is set is in none of the listings (active,
\* archived, due-today, day view, dashboard summary) and is not counted in the
\* totals of the month view or of the summary.
C11_SoftDeletedExcluded ==
    /\ resp.op \in ListingOps => \A st \in resp.habits : ~SoftDeleted(st.id)
    /\ resp.op = "getMonthHeatmap" =>
          resp.totalCount <=
              Cardinality({h \in habits : h.user = resp.user /\ h.deletedAt = {}})
    /\ resp.op = "getHabitsSummary" =>
          resp.totalHabits <=
              Cardinality({h \in habits : h.user = resp.user /\ h.deletedAt = {}})

\* C12: once deletedAt is set on a habit, every later request leaves it set
\* for as long as the habit is stored, and the active list never shows it.
C12_SoftDeleteIsFinal ==
    [][\A h \in habits :
          h.deletedAt # {} =>
              /\ \A g \in habits' : g.id = h.id => g.deletedAt # {}
              /\ resp'.op = "getAllHabits" =>
                    \A st \in resp'.habits : st.id # h.id]_vars

\* C15: a successful archive leaves the habit not due on any date and its
\* completions stored; a successful restore makes it due again on every date
\* of its schedule; the month view counts, on each day, no archived habit
\* and every active habit scheduled that day.
C15_ArchiveDecidesDueAtCallTime ==
    [][/\ (resp'.op = "archiveHabit" /\ resp'.status = 200) =>
             /\ completions' = completions
             /\ \A h \in habits' :
                   h.id = resp'.habit =>
                       \A D \in LifeDays : ~isHabitDueOnDate(h, LocalMidnightOf(D))
       /\ (resp'.op = "restoreHabit" /\ resp'.status = 200) =>
             /\ completions' = completions
             /\ \A h \in habits' :
                   h.id = resp'.habit =>
                       \A D \in LifeDays :
                           (/\ InsideWindow(h, LocalMidnightOf(D))
                            /\ DueByFrequency(h, LocalMidnightOf(D), TRUE))
                               => isHabitDueOnDate(h, LocalMidnightOf(D))
       /\ resp'.op = "getMonthHeatmap" =>
             LET date == LocalMidnightOf(resp'.day)
                 scheduled == {h \in habits' : /\ h.user = resp'.user
                                                /\ h.isActive
                                                /\ InsideWindow(h, date)
                                                /\ DueByFrequency(h, date, TRUE)}
             IN  /\ resp'.totalCount <= Cardinality(scheduled)
                 /\ resp'.totalCount >=
                       Cardinality({h \in scheduled : h.deletedAt = {}})]_vars

\* the month view of a past day on which an archived habit has a completion
\* counts no habit; the completion is still stored
C15_Witness ==
    /\ resp.op = "getMonthHeatmap"
    /\ resp.day < LocalDay(now)
    /\ resp.totalCount = 0
    /\ \E h \in habits : /\ h.user = resp.user
                         /\ ~h.isActive
                         /\ h.deletedAt = {}
                         /\ CompletionsOn(h.id, resp.day) # {}

\* the instant with the same local day of the month and time of day, one
\* calendar month before t
OneCalendarMonthBefore(t) ==
    LET year == LocalDay(t) \div 365
        month == GetMonth(t) + 1
        dayOfMonth == (LocalDay(t) % 365) - FirstDayOfMonth(month)
        timeOfDay == (t + tz) % TicksPerDay
        day == IF month = 1
               THEN (year - 1) * 365 + FirstDayOfMonth(12) + dayOfMonth
               ELSE year * 365 + FirstDayOfMonth(month - 1) + dayOfMonth
    IN  day * TicksPerDay + timeOfDay - tz

\* the habits a purge removed, when older than the cutoff
PurgeRemovesOnly(cutoff) ==
    resp'.op = "cleanupDeletedHabits" =>
        \A h \in habits :
            h \notin habits' =>
                /\ h.user = resp'.user
                /\ h.deletedAt # {}
                /\ \A d \in h.deletedAt : d < cutoff

\* C20 as stated: the purge removes only habits of the requesting user whose
\* deletedAt is set and more than 30 days old.
C20_PurgeAfterThirtyDays == [][PurgeRemovesOnly(now - 30 * TicksPerDay)]_vars

\* C20 amended: the purge removes only habits of the requesting user whose
\* deletedAt is set and earlier than one calendar month before the request.
C20_PurgeAfterOneMonth == [][PurgeRemovesOnly(OneCalendarMonthBefore(now))]_vars

\* a purge has removed the requesting user's old habit and left another
\* user's soft-deleted habit in the store
C20_Witness ==
    /\ resp.op = "cleanupDeletedHabits"
    /\ resp.user = "u1"
    /\ resp.deletedCount = 1
    /\ \A h \in habits : h.user # "u1"
    /\ \E h \in habits : h.deletedAt # {}

-----------------------------------------------------------------------------
(* Properties of interleaved check-ins (Spec) *)

\* C13: a check-in that found no completion and reaches its insert after
\* another request has inserted today's completion does not end in an error:
\* it answers 200 or 201 and the habit has exactly one completion today.
C13_DuplicateInsertRetried ==
    [][\A req \in BagToSet(inflight) :
          (/\ inflight' = inflight (-) SetToBag({req})
           /\ req.existing = {}
           /\ \E c \in completions : c.habit = req.habit /\ c.date = StartOfDay(now))
          => /\ resp'.op = "logCompletion"
             /\ resp'.status \in {200, 201}
             /\ Cardinality({c \in completions' :
                                c.habit = req.habit /\ c.date = StartOfDay(now)}) = 1]_vars

-----------------------------------------------------------------------------
(* Properties of the per-habit status (SpecView) *)

\* C14: in the day view of date d a due YesNo habit is completed exactly when
\* a completion of that habit dated on day d is stored, and in the due-today
\* listing exactly when one dated today is.
C14_StatusFromOwnCompletion ==
    /\ resp.op = "getHabitsForDate" =>
          \A st \in resp.habits : \A h \in habits :
              (h.id = st.id /\ h.goal.type = "yes_no") =>
                  st.completed = (CompletionsOn(h.id, resp.date) # {})
    /\ resp.op = "getTodaysDueHabits" =>
          \A st \in resp.habits : \A h \in habits :
              (h.id = st.id /\ h.goal.type = "yes_no") =>
                  st.completedToday = (CompletionsOn(h.id, LocalDay(now)) # {})

-----------------------------------------------------------------------------
(* Properties of the counts and rates (SpecView) *)

\* rate is completed / total * 100 rounded to the nearest integer, halves up
IsRoundedPercent(rate, completed, total) ==
    IF total = 0 THEN rate = 0
    ELSE /\ 2 * total * rate <= 200 * completed + total
         /\ 2 * total * rate > 200 * completed - total

CountsAndRate(completed, total, rate) ==
    /\ completed <= total
    /\ rate >= 0
    /\ rate <= 100
    /\ IsRoundedPercent(rate, completed, total)

\* C19: the day view and each day of the month view report completedCount <=
\* total due count and completionRate = round(completed / total * 100) within
\* 0..100, 0 when no habit is due.
C19_CompletedWithinTotal ==
    /\ resp.op = "getHabitsForDate" =>
          CountsAndRate(resp.completedCount, resp.habitsCount, resp.completionRate)
    /\ resp.op = "getMonthHeatmap" =>
          CountsAndRate(resp.completedCount, resp.totalCount, resp.completionRate)

\* the month view of a day on which two habits are due and one of them has
\* its completion
C19_Witness ==
    /\ resp.op = "getMonthHeatmap"
    /\ resp.totalCount = 2
    /\ resp.completedCount = 1
    /\ resp.completionRate = 50
    /\ Cardinality({c \in completions : LocalDay(c.date) = resp.day}) = 1

-----------------------------------------------------------------------------
(* Properties of the statistics helpers (SpecHeat, SpecChart) *)

HeatmapEvaluated ==
    fnIn.fn = "prepareHeatmapData" /\ fnOut.fn = "prepareHeatmapData"

RECURSIVE SumOfValues(_, _, _)
\* the sum of value over the completions, from the i-th on, whose calendar
\* day is in the set Days
SumOfValues(comps, i, Days) ==
    IF i > Len(comps) THEN 0
    ELSE (IF LocalDay(comps[i].date) \in Days THEN comps[i].value ELSE 0)
         + SumOfValues(comps, i + 1, Days)

RECURSIVE SumOfCounts(_, _, _)
\* the sum of count over the heatmap entries lo..hi, by halves
SumOfCounts(heatmap, lo, hi) ==
    IF lo > hi THEN 0
    ELSE IF lo = hi THEN heatmap[lo].count
    ELSE SumOfCounts(heatmap, lo, (lo + hi) \div 2)
         + SumOfCounts(heatmap, (lo + hi) \div 2 + 1, hi)

\* the calendar days of the window that ends today
HeatmapWindow == (Today - HeatmapFirstOffset)..Today

\* C16: prepareHeatmapData returns 365 entries of consecutive ascending days,
\* the last one being today; each entry's count is the value of the completion
\* of that calendar day, 0 when the day has none.
C16_HeatmapOneEntryPerDay ==
    HeatmapEvaluated =>
        /\ Len(fnOut.result) = 365
        /\ \A i \in 1..(Len(fnOut.result) - 1) :
              fnOut.result[i + 1].date = fnOut.result[i].date + 1
        /\ fnOut.result[Len(fnOut.result)].date = Today
        /\ \A i \in 1..Len(fnOut.result) :
              fnOut.result[i].count =
                  SumOfValues(fnIn.completions, 1, {fnOut.result[i].date})

\* C17: the counts of the heatmap add up to the values of the completions
\* whose calendar day lies in the 365-day window ending today.
C17_HeatmapSumIsWindowSum ==
    HeatmapEvaluated =>
        SumOfCounts(fnOut.result, 1, Len(fnOut.result)) = SumOfValues(fnIn.completions, 1, HeatmapWindow)

ChartEvaluated ==
    fnIn.fn = "prepareChartData" /\ fnOut.fn = "prepareChartData"

\* the month, counted from January of year 0, that calendar day D belongs to
MonthOfDay(D) ==
    CHOOSE k \in 0..(MaxChartMonths + 1) :
        ChartMonthStart(k) <= D /\ D < ChartMonthStart(k + 1)

\* the months in which the history has a completion
MonthsCompleted ==
    {MonthOfDay(LocalDay(fnIn.completions[i].date)) : i \in 1..Len(fnIn.completions)}

\* the twelve most recent months of M, or all when there are fewer
RecentMonths(M) == {k \in M : Cardinality({j \in M : j > k}) < 12}

\* the month an entry of the chart is labelled with
MonthOfEntry(entry) == entry.name.year * 12 + entry.name.month - 1

\* C18: prepareChartData returns at most 12 entries in chronological order,
\* one for each of the (at most 12) most recent months that have completions,
\* each with the sum of value of that month's completions.
C18_ChartLastTwelveMonths ==
    ChartEvaluated =>
        /\ Len(fnOut.result) <= 12
        /\ \A M \in {MonthsCompleted} :
              {MonthOfEntry(fnOut.result[i]) : i \in 1..Len(fnOut.result)} = RecentMonths(M)
        /\ \A i \in 1..(Len(fnOut.result) - 1) :
              MonthOfEntry(fnOut.result[i]) < MonthOfEntry(fnOut.result[i + 1])
        /\ \A i \in 1..Len(fnOut.result) :
              fnOut.result[i].value =
                  SumOfValues(fnIn.completions, 1,
                              ChartMonthStart(MonthOfEntry(fnOut.result[i]))
                                  ..(ChartMonthStart(MonthOfEntry(fnOut.result[i]) + 1) - 1))

\* thirteen months have completions: the chart starts with February of the
\* first year (one completion of 1) and ends with January of the next year
\* (completions of 1 and 2)
C18_Witness ==
    /\ ChartEvaluated
    /\ Cardinality(MonthsCompleted) = 13
    /\ Len(fnOut.result) = 12
    /\ fnOut.result[1] = [name |-> [month |-> 2, year |-> 0], value |-> 1]
    /\ fnOut.result[12] = [name |-> [month |-> 1, year |-> 1], value |-> 3]

-----------------------------------------------------------------------------
(* Properties of archive and restore (SpecArchive) *)

\* the habit is in the list GET /api/habits gives its owner after the step
InActiveListAfter(user, hid) == [id |-> hid] \in getAllHabits(user)'.habits

\* the step leaves every completion as it was, and the owner is answered
\* the same statistics of the habit after it as before
KeepsHistory(user, hid) ==
    /\ completions' = completions
    /\ FindOwnedHabit(hid, user)' # {}
    /\ \A before \in {CompletionsOfHabit(completions, hid)},
          after \in {CompletionsOfHabit(completions', hid)} :
          HabitStats(after, now') = HabitStats(before, now)

\* C21: a successful archiveHabit takes the habit out of the active list and
\* a successful restoreHabit of a habit that is not soft-deleted puts it
\* back; neither step creates, changes or deletes a completion, and the
\* habit's streaks, heatmap and chart are the same after the step as before.
C21_ArchiveRestoreKeepHistory ==
    [][\A u \in Users, h \in 1..2 :
          /\ (ArchiveHabit(u, h) /\ resp'.status = 200)
                => ~InActiveListAfter(u, h) /\ KeepsHistory(u, h)
          /\ (RestoreHabit(u, h) /\ resp'.status = 200)
                => /\ KeepsHistory(u, h)
                   /\ ~SoftDeleted(h) => InActiveListAfter(u, h)]_vars

\* a habit with a two-day streak was restored and is in the active list
C21_Witness ==
    /\ resp = LifecycleResp("restoreHabit", 200, 1)
    /\ [id |-> 1] \in getAllHabits("u1").habits
    /\ getHabitStats("u1", 1).body.currentStreak = 2
    /\ getHabitStats("u1", 1).body.totalCompletions = 3

-----------------------------------------------------------------------------
(* Properties of createHabit and updateHabit (SpecHabit) *)

IsSpecificDaysType(f) == f.type \in {"specific", "specific_days"}

HasDuplicate(seq) == \E i, j \in 1..Len(seq) : i < j /\ seq[i] = seq[j]

\* days that are empty, repeat a day, or hold a day outside 0..6
BadDays(seq) ==
    \/ Len(seq) = 0
    \/ HasDuplicate(seq)
    \/ \E d \in Range(seq) : d < 0 \/ d > 6

\* C22: a createHabit or updateHabit whose body carries a specific-days
\* frequency with empty, repeated or out-of-range days leaves the stored
\* habits as they were.
C22_BadSpecificDaysRejected ==
    [][/\ \A u \in Users, body \in SchedBodies :
             (/\ IsSpecificDaysType(body.frequency)
              /\ BadDays(body.frequency.days)
              /\ CreateHabit(u, body))
             => habits' = habits
       /\ \A u \in Users, h \in HabitIds, body \in SchedUpdates :
             (/\ \E f \in body.frequency : IsSpecificDaysType(f) /\ BadDays(f.days)
              /\ UpdateHabit(u, h, body))
             => habits' = habits]_vars

\* C23: every stored habit with a specific-days frequency carries at least
\* one day, every day within 0..6, and no day twice.
C23_StoredSpecificDaysWellFormed ==
    \A h \in habits :
        IsSpecificDaysType(h.frequency) => ~BadDays(h.frequency.days)

\* a habit on Tuesdays and Thursdays is stored, and an update was answered
C23_Witness ==
    /\ resp.op = "updateHabit"
    /\ \E h \in habits : h.frequency.type = "specific" /\ h.frequency.days = <<1, 3>>

-----------------------------------------------------------------------------
(* Properties of the due-date evaluator on corrupt records (SpecDue) *)

\* the frequency tag is missing or unrecognised, or the days of a specific
\* frequency are missing or not a list
CorruptFrequency(f) ==
    \/ f.type \notin {"daily", "specific", "specific_days"}
    \/ f.type \in {"specific", "specific_days"} /\ ~f.daysIsArray

\* C24: for a habit with a corrupt frequency isHabitDueOnDate answers false
\* on every date; it answers, with a boolean, whatever the record.
C24_CorruptFrequencyNeverDue ==
    DueEvaluated =>
        /\ fnOut.result \in BOOLEAN
        /\ CorruptFrequency(fnIn.habit.frequency) => fnOut.result = FALSE

\* an active habit without a frequency tag, evaluated inside its window
C24_Witness ==
    /\ DueEvaluated
    /\ fnIn.habit.frequency.type = "undefined"
    /\ fnOut.active = TRUE
    /\ fnOut.result = FALSE

-----------------------------------------------------------------------------
(* Properties of the month view's colour scale (SpecColor) *)

\* the five colours of the scale, lightest first
HeatmapScale == <<"#ebedf0", "#c6e48b", "#7bc96f", "#239a3b", "#196127">>

\* the bucket of a rate: 1 for 0, 2 for (0,25), 3 for [25,50), 4 for
\* [50,75), 5 for [75,100]
BucketOf(rate) ==
    IF rate = 0 THEN 1
    ELSE IF 0 < rate /\ rate < 25 THEN 2
    ELSE IF 25 <= rate /\ rate < 50 THEN 3
    ELSE IF 50 <= rate /\ rate < 75 THEN 4
    ELSE 5

\* C25: every integer rate of 0..100 gets exactly one of five distinct
\* colours, the one of its bucket: 0, (0,25), [25,50), [50,75), [75,100].
C25_FiveColourBuckets ==
    (fnIn.fn = "getHeatmapColor" /\ fnOut.fn = "getHeatmapColor") =>
        /\ fnOut.color = HeatmapScale[BucketOf(fnIn.rate)]
        /\ \A i \in 1..5 : (fnOut.color = HeatmapScale[i]) <=> (i = BucketOf(fnIn.rate))

\* a rate on a threshold was coloured with the colour of the upper bucket
C25_Witness ==
    /\ fnIn.fn = "getHeatmapColor"
    /\ fnIn.rate = 50
    /\ fnOut.fn = "getHeatmapColor"
    /\ fnOut.color = HeatmapScale[4]

-----------------------------------------------------------------------------
(* Properties of the streak calculators on repeated days (SpecStreak) *)

RECURSIVE OnePerDay(_, _)
\* the history without the completions whose calendar day an earlier
\* element already has
OnePerDay(comps, i) ==
    IF i > Len(comps) THEN <<>>
    ELSE (IF \E j \in 1..(i - 1) : LocalDay(comps[j].date) = LocalDay(comps[i].date)
          THEN <<>> ELSE <<comps[i]>>)
         \o OnePerDay(comps, i + 1)

-----------------------------------------------------------------------------
(* Properties of the stores' references (SpecLife, SpecOwner) *)

\* C27: every stored completion references a habit that is in the Habit
\* store.
C27_NoOrphanCompletion ==
    \A c \in completions : \E h \in habits : h.id = c.habit

\* the completions of habits the user does not own
CompletionsOfOthers(coll, user) ==
    {c \in coll : \A h \in habits : h.id = c.habit => h.user # user}

\* C28: a deleteCompletion issued by a user leaves the completions of other
\* users' habits as they were, and getTodayCompletions and
\* getCompletionsByRange answer a user with no completion of another user's
\* habit.
C28_OnlyOwnCompletions ==
    [][/\ \A u \in Users, cid \in 1..4 :
             DeleteCompletion(u, cid)
             => CompletionsOfOthers(completions', u) = CompletionsOfOthers(completions, u)
       /\ resp'.op \in {"getTodayCompletions", "getCompletionsByRange"}
             => CompletionsOfOthers(resp'.completions, resp'.user) = {}]_vars

-----------------------------------------------------------------------------
(* Properties of the client's progress (SpecClient) *)

\* C29: after any successful check-ins and unchecks of a habit within a day
\* the progress the client holds for it is the value of the server's
\* completion of the habit and day, 0 when there is none, and the entry
\* refreshCompletions would build has the same progress and completed flag.
C29_ClientProgressIsServerValue ==
    \A h \in habits :
        LET shown == EntryOf(client, h.id)
            rebuilt == EntryOf(organizeCompletions(
                                   AsArray(getTodayCompletions(ClientUser).completions),
                                   now), h.id)
        IN  /\ shown.progress = ValueOn(h.id, LocalDay(now))
            /\ rebuilt.progress = shown.progress
            /\ rebuilt.completed = shown.completed

-----------------------------------------------------------------------------
(* Properties relating the two streak calculators (SpecStreak) *)

\* C30: on a history with at most one completion a day, the static
\* Completion.calculateStreak and the controller's calculateStreaks return
\* the same currentStreak and the same longestStreak.
C30_StreakCalculatorsAgree ==
    (fnIn.fn = "streaks" /\ DistinctDays) =>
        \A r \in fnOut.controller, s \in fnOut.static :
            /\ r.currentStreak = s.currentStreak
            /\ r.longestStreak = s.longestStreak

====
